---- MODULE Spec2Model ----
(***************************************************************************)
(* Model of mergekit/architecture.py: the catalogue of tensor-name layouts *)
(* (WeightInfo, ArchitectureInfo, StaticTensorNames, MixtralTensorNames,   *)
(* PhiTensorNames), the dispatcher get_architecture_info and the           *)
(* enumeration ArchitectureInfo.all_weights.                               *)
(*                                                                         *)
(* Tensor names are TLA+ strings built by concatenation, as str.format and *)
(* "+" build them.  A descriptor is a record tagged with its class.  The   *)
(* outcome of a call is a record tagged "return" or "raise".               *)
(***************************************************************************)
EXTENDS Integers, Sequences, FiniteSets, TLC

\* ---- bounds of the model ----
MaxLayers == 2
MaxExperts == 8
MaxArchs == 2

\* ---- helpers over Python lists and strings ----
None == "<None>"

Range(s) == {s[i] : i \in DOMAIN s}

RECURSIVE Concat(_)
\* sum(lists, start=[]) / successive list.extend
Concat(lists) ==
    IF lists = << >> THEN << >>
    ELSE Head(lists) \o Concat(Tail(lists))

\* str.startswith
startswith(s, prefix) ==
    /\ Len(s) >= Len(prefix)
    /\ SubSeq(s, 1, Len(prefix)) = prefix

\* str.format(idx=index) of a format string held as its pieces, the
\* replacement field "{idx}" being one piece
IdxField == "{idx}"

RECURSIVE format(_, _)
format(fmt, idx) ==
    IF fmt = << >> THEN ""
    ELSE (IF Head(fmt) = IdxField THEN ToString(idx) ELSE Head(fmt))
         \o format(Tail(fmt), idx)

\* ---- WeightInfo ----
WeightInfo(name, is_embed) ==
    [name |-> name, is_embed |-> is_embed, input_space |-> None,
     output_space |-> None, optional |-> FALSE, aliases |-> None]

\* ---- StaticTensorNames ----
StaticTensorNames(name, pre, post, embed, fmt, suffixes, key) ==
    [kind |-> "StaticTensorNames", name |-> name,
     pre_weight_names |-> pre, post_weight_names |-> post,
     embed_weight_names |-> embed, layer_prefix_format |-> fmt,
     layer_weight_suffixes |-> suffixes, num_layers_key |-> key]

\* variant: membership tested in the wrong name list
_make_weightinfo_pre_only(self, name) ==
    WeightInfo(name, name \in Range(self.pre_weight_names))

_make_weightinfo(self, name) ==
    WeightInfo(name, name \in Range(self.embed_weight_names))

Static_pre_weights(self) ==
    [i \in 1..Len(self.pre_weight_names) |->
        _make_weightinfo(self, self.pre_weight_names[i])]

Static_post_weights(self) ==
    [i \in 1..Len(self.post_weight_names) |->
        _make_weightinfo(self, self.post_weight_names[i])]

RECURSIVE Static_layer_loop(_, _, _, _)
\* the for loop of StaticTensorNames.layer_weights from suffix number k on
Static_layer_loop(self, index, k, res) ==
    IF k > Len(self.layer_weight_suffixes) THEN res
    ELSE Static_layer_loop(self, index, k + 1,
            Append(res, _make_weightinfo(self,
                format(self.layer_prefix_format, index) \o "."
                    \o self.layer_weight_suffixes[k])))

Static_layer_weights(self, index) == Static_layer_loop(self, index, 1, << >>)

Static_num_layers_config_key(self) ==
    IF self.num_layers_key # None /\ self.num_layers_key # ""
    THEN self.num_layers_key
    ELSE "num_hidden_layers"

\* ---- the static catalogue ----
LLAMA_INFO ==
    StaticTensorNames("LlamaForCausalLM",
        <<"model.embed_tokens.weight">>,
        <<"model.norm.weight", "lm_head.weight">>,
        <<"model.embed_tokens.weight", "lm_head.weight">>,
        <<"model.layers.", IdxField>>,
        <<"input_layernorm.weight", "mlp.up_proj.weight",
          "mlp.down_proj.weight", "mlp.gate_proj.weight",
          "post_attention_layernorm.weight", "self_attn.q_proj.weight",
          "self_attn.k_proj.weight", "self_attn.v_proj.weight",
          "self_attn.o_proj.weight">>,
        None)

MISTRAL_INFO == [LLAMA_INFO EXCEPT !.name = "MistralForCausalLM"]

STABLELM_INFO ==
    [LLAMA_INFO EXCEPT
        !.name = "StableLMEpochForCausalLM",
        !.post_weight_names = LLAMA_INFO.post_weight_names
                                \o <<"model.norm.bias">>,
        !.layer_weight_suffixes = LLAMA_INFO.layer_weight_suffixes
            \o <<"input_layernorm.bias", "post_attention_layernorm.bias">>]

GPT_NEOX_PREFIXES ==
    <<"attention.dense", "attention.query_key_value", "input_layernorm",
      "mlp.dense_4h_to_h", "mlp.dense_h_to_4h", "post_attention_layernorm">>

GPT_NEOX_INFO ==
    StaticTensorNames("GPTNeoXForCausalLM",
        <<"gpt_neox.embed_in.weight">>,
        <<"gpt_neox.final_layer_norm.bias", "gpt_neox.final_layer_norm.weight",
          "embed_out.weight">>,
        <<"gpt_neox.embed_in.weight", "embed_out.weight">>,
        <<"gpt_neox.layers.", IdxField>>,
        Concat([i \in 1..Len(GPT_NEOX_PREFIXES) |->
                  <<GPT_NEOX_PREFIXES[i] \o ".weight",
                    GPT_NEOX_PREFIXES[i] \o ".bias">>])
          \o <<"attention.bias", "attention.masked_bias",
               "attention.rotary_emb.inv_freq">>,
        None)

GPT2_INFO ==
    StaticTensorNames("GPT2LMHeadModel",
        <<"wte.weight", "wpe.weight">>,
        <<"ln_f.weight", "ln_f.bias">>,
        <<"wte.weight">>,
        <<"h.", IdxField>>,
        <<"attn.c_attn.weight", "attn.c_attn.bias", "attn.c_proj.weight",
          "attn.c_proj.bias", "ln_1.weight", "ln_1.bias", "ln_2.weight",
          "ln_2.bias", "mlp.c_proj.weight", "mlp.c_proj.bias",
          "mlp.c_fc.weight", "mlp.c_fc.bias", "mlp.c_proj.weight",
          "mlp.c_proj.bias">>,
        "n_layer")

JAIS_INFO ==
    StaticTensorNames("JAISLMHeadModel",
        <<"transformer.wte.weight", "transformer.relative_pe.slopes">>,
        <<"transformer.ln_f.weight", "transformer.ln_f.bias">>,
        <<"transformer.wte.weight">>,
        <<"transformer.h.", IdxField>>,
        <<"attn.c_attn.weight", "attn.c_attn.bias", "attn.c_proj.weight",
          "attn.c_proj.bias", "ln_1.weight", "ln_1.bias", "ln_2.weight",
          "ln_2.bias", "mlp.c_fc.weight", "mlp.c_fc.bias",
          "mlp.c_fc2.weight", "mlp.c_fc2.bias", "mlp.c_proj.weight",
          "mlp.c_proj.bias">>,
        "n_layer")

GPT2_SEQCLASS_INFO ==
    StaticTensorNames("GPT2ForSequenceClassification",
        <<"transformer.wte.weight", "transformer.wpe.weight">>,
        <<"transformer.ln_f.weight", "transformer.ln_f.bias",
          "score.weight">>,
        GPT2_INFO.embed_weight_names,
        <<"transformer.h.", IdxField>>,
        GPT2_INFO.layer_weight_suffixes,
        GPT2_INFO.num_layers_key)

QWEN_INFO ==
    StaticTensorNames("QWenLMHeadModel",
        <<"transformer.wte.weight">>,
        <<"transformer.ln_f.weight", "lm_head.weight">>,
        <<"transformer.wte.weight", "lm_head.weight">>,
        <<"transformer.h.", IdxField>>,
        <<"attn.c_attn.bias", "attn.c_attn.weight", "attn.c_proj.weight",
          "ln_1.weight", "ln_2.weight", "mlp.c_proj.weight",
          "mlp.w1.weight", "mlp.w2.weight">>,
        None)

CHATGLM_INFO ==
    StaticTensorNames("ChatGLMModel",
        <<"transformer.embedding.word_embeddings.weight",
          "transformer.rotary_pos_emb.inv_freq">>,
        <<"transformer.encoder.final_layernorm.weight",
          "transformer.output_layer.weight">>,
        <<"transformer.embedding.word_embeddings.weight",
          "transformer.output_layer.weight">>,
        <<"transformer.encoder.layers.", IdxField>>,
        <<"input_layernorm.weight", "mlp.dense_4h_to_h.weight",
          "mlp.dense_h_to_4h.weight", "post_attention_layernorm.weight",
          "self_attention.dense.weight",
          "self_attention.query_key_value.bias",
          "self_attention.query_key_value.weight">>,
        None)

FALCON_INFO ==
    StaticTensorNames("FalconForCausalLM",
        <<"transformer.word_embeddings.weight">>,
        <<"transformer.ln_f.weight", "transformer.ln_f.bias",
          "lm_head.weight">>,
        <<"transformer.word_embeddings.weight", "lm_head.weight">>,
        <<"transformer.h.", IdxField>>,
        <<"ln_attn.bias", "ln_attn.weight", "ln_mlp.bias", "ln_mlp.weight",
          "mlp.dense_4h_to_h.weight", "mlp.dense_h_to_4h.weight",
          "self_attention.dense.weight",
          "self_attention.query_key_value.weight">>,
        None)

PHI2_INFO ==
    StaticTensorNames("PhiForCausalLM",
        <<"transformer.embd.wte.weight">>,
        <<"lm_head.linear.bias", "lm_head.linear.weight", "lm_head.ln.bias",
          "lm_head.ln.weight">>,
        <<"lm_head.linear.weight", "transformer.embd.wte.weight">>,
        <<"transformer.h.", IdxField>>,
        <<"ln.bias", "ln.weight", "mixer.out_proj.bias",
          "mixer.out_proj.weight", "mixer.Wqkv.bias", "mixer.Wqkv.weight",
          "mlp.fc1.bias", "mlp.fc1.weight", "mlp.fc2.bias",
          "mlp.fc2.weight">>,
        "n_layer")

PHI2_INFO_AGAIN_BUT_DIFFERENT ==
    StaticTensorNames("PhiForCausalLM",
        <<"model.embed_tokens.weight">>,
        <<"lm_head.bias", "lm_head.weight", "model.final_layernorm.bias",
          "model.final_layernorm.weight">>,
        <<"lm_head.weight", "model.embed_tokens.weight">>,
        <<"model.layers.", IdxField>>,
        <<"input_layernorm.bias", "input_layernorm.weight",
          "self_attn.dense.bias", "self_attn.dense.weight",
          "self_attn.q_proj.bias", "self_attn.q_proj.weight",
          "self_attn.k_proj.bias", "self_attn.k_proj.weight",
          "self_attn.v_proj.bias", "self_attn.v_proj.weight",
          "mlp.fc1.bias", "mlp.fc1.weight", "mlp.fc2.bias",
          "mlp.fc2.weight">>,
        None)

BAICHUAN_INFO ==
    StaticTensorNames("BaichuanForCausalLM",
        <<"model.embed_tokens.weight">>,
        <<"model.norm.weight", "lm_head.weight">>,
        <<"model.embed_tokens.weight", "lm_head.weight">>,
        <<"model.layers.", IdxField>>,
        <<"input_layernorm.weight", "self_attn.W_pack.weight",
          "self_attn.o_proj.weight", "post_attention_layernorm.weight",
          "mlp.gate_proj.weight", "mlp.down_proj.weight",
          "mlp.up_proj.weight">>,
        None)

\* ---- MixtralTensorNames ----
MixtralTensorNames_ARCHITECTURE_NAME == "MixtralForCausalLM"

MixtralTensorNames(num_local_experts) ==
    [kind |-> "MixtralTensorNames", num_local_experts |-> num_local_experts]

\* variant: the expert count taken from the layer-count field
MixtralTensorNames_from_config_wrong_field(config) ==
    MixtralTensorNames(config.num_hidden_layers)

MixtralTensorNames_from_config(config) ==
    MixtralTensorNames(config.num_local_experts)

MixtralParams == <<"w1", "w2", "w3">>

RECURSIVE Mixtral_name_loop(_, _, _, _, _)
\* the nested for loops of MixtralTensorNames.layer_weights, from expert
\* expert_idx and parameter number p on
Mixtral_name_loop(num_experts, prefix, expert_idx, p, tensor_names) ==
    IF expert_idx >= num_experts THEN tensor_names
    ELSE IF p > Len(MixtralParams)
    THEN Mixtral_name_loop(num_experts, prefix, expert_idx + 1, 1,
                           tensor_names)
    ELSE Mixtral_name_loop(num_experts, prefix, expert_idx, p + 1,
            Append(tensor_names,
                prefix \o ".block_sparse_moe.experts."
                    \o ToString(expert_idx) \o "." \o MixtralParams[p]
                    \o ".weight"))

\* variant: the gate tensor is left out
Mixtral_layer_weights_no_gate(self, index) ==
    LET num_experts == self.num_local_experts
        prefix == format(MISTRAL_INFO.layer_prefix_format, index)
        tensor_names == Mixtral_name_loop(num_experts, prefix, 0, 1, << >>)
    IN  [i \in 1..Len(tensor_names) |->
            WeightInfo(tensor_names[i],
                tensor_names[i] \in Range(MISTRAL_INFO.embed_weight_names))]

Mixtral_layer_weights(self, index) ==
    LET num_experts == self.num_local_experts
        prefix == format(MISTRAL_INFO.layer_prefix_format, index)
        tensor_names ==
            Append(Mixtral_name_loop(num_experts, prefix, 0, 1, << >>),
                   prefix \o ".block_sparse_moe.gate.weight")
    IN  [i \in 1..Len(tensor_names) |->
            WeightInfo(tensor_names[i],
                tensor_names[i] \in Range(MISTRAL_INFO.embed_weight_names))]

\* ---- PhiTensorNames ----
PhiTensorNames_ARCHITECTURE_NAME == "MixFormerSequentialForCausalLM"

PhiTensorNames(n_layer) == [kind |-> "PhiTensorNames", n_layer |-> n_layer]

PhiPostSuffixes == <<"linear.bias", "linear.weight", "ln.bias", "ln.weight">>

PhiLayerSuffixes ==
    <<"ln.bias", "ln.weight", "mixer.Wqkv.bias", "mixer.Wqkv.weight",
      "mixer.out_proj.bias", "mixer.out_proj.weight",
      "mixer.rotary_emb.inv_freq", "mlp.fc1.bias", "mlp.fc1.weight",
      "mlp.fc2.bias", "mlp.fc2.weight">>

Phi_pre_weights(self) == <<WeightInfo("layers.0.wte.weight", TRUE)>>

Phi_post_weights(self) ==
    LET fake_layer_idx == self.n_layer
    IN  [i \in 1..Len(PhiPostSuffixes) |->
            WeightInfo("layers." \o ToString(fake_layer_idx) \o "."
                            \o PhiPostSuffixes[i],
                       startswith(PhiPostSuffixes[i], "linear."))]

Phi_layer_weights(self, index) ==
    [i \in 1..Len(PhiLayerSuffixes) |->
        WeightInfo("layers." \o ToString(index) \o "." \o PhiLayerSuffixes[i],
                   FALSE)]

\* ---- ArchitectureInfo: the methods, by class of self ----
pre_weights(self) ==
    CASE self.kind = "StaticTensorNames" -> Static_pre_weights(self)
      [] self.kind = "MixtralTensorNames" -> Static_pre_weights(MISTRAL_INFO)
      [] self.kind = "PhiTensorNames" -> Phi_pre_weights(self)

post_weights(self) ==
    CASE self.kind = "StaticTensorNames" -> Static_post_weights(self)
      [] self.kind = "MixtralTensorNames" -> Static_post_weights(MISTRAL_INFO)
      [] self.kind = "PhiTensorNames" -> Phi_post_weights(self)

layer_weights(self, index) ==
    CASE self.kind = "StaticTensorNames" -> Static_layer_weights(self, index)
      [] self.kind = "MixtralTensorNames" -> Mixtral_layer_weights(self, index)
      [] self.kind = "PhiTensorNames" -> Phi_layer_weights(self, index)

num_layers_config_key(self) ==
    CASE self.kind = "StaticTensorNames" -> Static_num_layers_config_key(self)
      [] self.kind = "MixtralTensorNames" ->
            Static_num_layers_config_key(MISTRAL_INFO)
      [] self.kind = "PhiTensorNames" -> "n_layer"

\* getattr(config, self.num_layers_config_key())
num_layers_of(self, config) == config[num_layers_config_key(self)]

\* ---- outcomes of a call ----
NoOutcome == [tag |-> "none"]
NoInfo == [kind |-> "None"]
Return(value) == [tag |-> "return", value |-> value]
\* an exception: its type, the literal text of its message and the values
\* interpolated into the message
Raise(type, text, args) ==
    [tag |-> "raise", type |-> type, text |-> text, args |-> args]

\* PhiTensorNames.from_config(config) as get_architecture_info calls it: the
\* function is declared (cls, config) without @classmethod, so the call on the
\* class binds config to cls and the second positional argument is missing
PhiTensorNames_from_config(config) ==
    Raise("TypeError",
          "from_config() missing 1 required positional argument: 'config'",
          << >>)

\* ---- get_architecture_info ----
supported ==
    <<LLAMA_INFO, MISTRAL_INFO, GPT_NEOX_INFO, QWEN_INFO, GPT2_INFO,
      GPT2_SEQCLASS_INFO, CHATGLM_INFO, STABLELM_INFO, JAIS_INFO,
      BAICHUAN_INFO, FALCON_INFO>>

RECURSIVE scan_supported_default(_, _)
\* variant: a scan that falls back to the first entry of the table
scan_supported_default(k, arch_name) ==
    IF k > Len(supported) THEN Return(supported[1])
    ELSE IF supported[k].name = arch_name THEN Return(supported[k])
    ELSE scan_supported_default(k + 1, arch_name)

RECURSIVE scan_supported(_, _)
\* for arch in supported: ... ; raise RuntimeError(...)
scan_supported(k, arch_name) ==
    IF k > Len(supported)
    THEN Raise("RuntimeError", "Unsupported architecture ", <<arch_name>>)
    ELSE IF supported[k].name = arch_name THEN Return(supported[k])
    ELSE scan_supported(k + 1, arch_name)

\* variant: the two model_type branches exchanged
resolve_phi2_swapped(config) ==
    IF config.model_type = "phi-msft"
    THEN Return(PHI2_INFO_AGAIN_BUT_DIFFERENT)
    ELSE IF config.model_type = "phi" THEN Return(PHI2_INFO)
    ELSE NoOutcome

\* variant: else in place of elif
resolve_phi2_else(config) ==
    IF config.model_type = "phi-msft" THEN Return(PHI2_INFO)
    ELSE Return(PHI2_INFO_AGAIN_BUT_DIFFERENT)

\* the body of "if arch_name == PHI2_INFO.name:"; NoOutcome when neither
\* branch returns and control falls through to the scan
resolve_phi2(config) ==
    IF config.model_type = "phi-msft" THEN Return(PHI2_INFO)
    ELSE IF config.model_type = "phi"
    THEN Return(PHI2_INFO_AGAIN_BUT_DIFFERENT)
    ELSE NoOutcome

\* get_architecture_info from "arch_name = config.architectures[0]" on.
\* result: what the call returns or raises; reads: the parts of config the
\* call has evaluated on the way
resolve_name(config) ==
    LET arch_name == config.architectures[1]
        first == {"architectures", "architectures[0]"}
    IN  IF arch_name = PhiTensorNames_ARCHITECTURE_NAME
        THEN [result |-> PhiTensorNames_from_config(config), reads |-> first]
        ELSE IF arch_name = MixtralTensorNames_ARCHITECTURE_NAME
        THEN [result |-> Return(MixtralTensorNames_from_config(config)),
              reads |-> first \cup {"num_local_experts"}]
        ELSE IF arch_name = PHI2_INFO.name
                /\ resolve_phi2(config) # NoOutcome
        THEN [result |-> resolve_phi2(config),
              reads |-> first \cup {"model_type"}]
        ELSE [result |-> scan_supported(1, arch_name),
              reads |-> IF arch_name = PHI2_INFO.name
                        THEN first \cup {"model_type"} ELSE first]

\* variant: only the empty list is rejected, the first name is used
get_architecture_info_first_of_many(config) ==
    IF Len(config.architectures) < 1
    THEN [result |-> Raise("RuntimeError",
                           "More than one architecture in config?", << >>),
          reads |-> {"architectures"}]
    ELSE resolve_name(config)

get_architecture_info(config) ==
    IF Len(config.architectures) # 1
    THEN [result |-> Raise("RuntimeError",
                           "More than one architecture in config?", << >>),
          reads |-> {"architectures"}]
    ELSE resolve_name(config)

\* ---- the configurations handed to the module ----
StaticNames == {supported[k].name : k \in DOMAIN supported}

UnknownNames == {"BertModel", "LlamaModel"}

ArchNames ==
    StaticNames \cup UnknownNames
        \cup {PhiTensorNames_ARCHITECTURE_NAME,
              MixtralTensorNames_ARCHITECTURE_NAME, PHI2_INFO.name}

\* names used in the lists that are not of length one
ListNames == {"LlamaForCausalLM", "BertModel"}

ArchLists ==
    {<<n>> : n \in ArchNames}
        \cup UNION {[1..k -> ListNames] : k \in (0..MaxArchs) \ {1}}

ModelTypes == {"phi-msft", "phi", "phi3", "llama"}
LayerCounts == 0..MaxLayers
ExpertCounts == 0..MaxExperts

Configs ==
    [architectures : ArchLists, model_type : ModelTypes,
     num_local_experts : ExpertCounts, n_layer : LayerCounts,
     num_hidden_layers : LayerCounts]

ConfigFields == DOMAIN [architectures |-> 0, model_type |-> 0,
                        num_local_experts |-> 0, n_layer |-> 0,
                        num_hidden_layers |-> 0]

FieldValues(f) ==
    CASE f = "architectures" -> ArchLists
      [] f = "model_type" -> ModelTypes
      [] f = "num_local_experts" -> ExpertCounts
      [] f \in {"n_layer", "num_hidden_layers"} -> LayerCounts

\* ---- state ----
VARIABLES
    config,      \* the PretrainedConfig of the current call
    pc,          \* "start", "failed", "resolved", "loop", "done"
    outcome,     \* what get_architecture_info returned or raised
    reads,       \* the parts of config get_architecture_info evaluated
    info,        \* the ArchitectureInfo in the caller's hands
    num_layers,  \* all_weights: num_layers
    layer_idx,   \* all_weights: layer_idx, the next index of the loop
    layer,       \* all_weights: the value of the latest layer_weights call
    res,         \* all_weights: res
    prev         \* the previous call: its config and its outcome

vars == <<config, pc, outcome, reads, info, num_layers, layer_idx, layer,
          res, prev>>

NoCall == [config |-> NoInfo, outcome |-> NoOutcome]

Init ==
    /\ config \in Configs
    /\ pc = "start"
    /\ outcome = NoOutcome
    /\ reads = {}
    /\ info = NoInfo
    /\ num_layers = 0
    /\ layer_idx = 0
    /\ layer = << >>
    /\ res = << >>
    /\ prev = NoCall

\* the caller resolves its configuration
CallGetArchitectureInfo ==
    /\ pc = "start"
    /\ LET r == get_architecture_info(config)
       IN  /\ outcome' = r.result
           /\ reads' = r.reads
           /\ info' = IF r.result.tag = "return" THEN r.result.value
                      ELSE NoInfo
           /\ pc' = IF r.result.tag = "return" THEN "resolved" ELSE "failed"
    /\ UNCHANGED <<config, num_layers, layer_idx, layer, res, prev>>

\* the caller builds the renamed-key descriptor itself, from the field
\* from_config names
ConstructPhiTensorNames ==
    /\ pc = "start"
    /\ info' = PhiTensorNames(config.n_layer)
    /\ pc' = "resolved"
    /\ UNCHANGED <<config, outcome, reads, num_layers, layer_idx, layer, res,
                   prev>>

\* all_weights: num_layers = self.num_layers(config); res = list(pre_weights())
AllWeightsBegin ==
    /\ pc = "resolved"
    /\ num_layers' = num_layers_of(info, config)
    /\ res' = pre_weights(info)
    /\ layer_idx' = 0
    /\ pc' = "loop"
    /\ UNCHANGED <<config, outcome, reads, info, layer, prev>>

\* variant: the loop asks for the layer after the current index
AllWeightsLayer_off_by_one ==
    /\ pc = "loop"
    /\ layer_idx < num_layers
    /\ layer' = layer_weights(info, layer_idx + 1)
    /\ res' = res \o layer'
    /\ layer_idx' = layer_idx + 1
    /\ UNCHANGED <<config, pc, outcome, reads, info, num_layers, prev>>

\* all_weights: one iteration of for layer_idx in range(num_layers)
AllWeightsLayer ==
    /\ pc = "loop"
    /\ layer_idx < num_layers
    /\ layer' = layer_weights(info, layer_idx)
    /\ res' = res \o layer'
    /\ layer_idx' = layer_idx + 1
    /\ UNCHANGED <<config, pc, outcome, reads, info, num_layers, prev>>

\* all_weights: res.extend(self.post_weights()); return res
AllWeightsEnd ==
    /\ pc = "loop"
    /\ layer_idx >= num_layers
    /\ res' = res \o post_weights(info)
    /\ pc' = "done"
    /\ UNCHANGED <<config, outcome, reads, info, num_layers, layer_idx, layer,
                   prev>>

\* the caller changes one field of the configuration and starts over; the
\* call just made becomes the previous call
NewCall ==
    /\ pc \in {"failed", "resolved"}
    /\ outcome # NoOutcome
    /\ \E f \in ConfigFields :
          \E v \in FieldValues(f) \ {config[f]} :
              config' = [config EXCEPT ![f] = v]
    /\ prev' = [config |-> config, outcome |-> outcome]
    /\ pc' = "start"
    /\ outcome' = NoOutcome
    /\ reads' = {}
    /\ info' = NoInfo
    /\ UNCHANGED <<num_layers, layer_idx, layer, res>>

\* one configuration, resolved and enumerated
Next ==
    \/ CallGetArchitectureInfo
    \/ ConstructPhiTensorNames
    \/ AllWeightsBegin
    \/ AllWeightsLayer
    \/ AllWeightsEnd

Spec == Init /\ [][Next]_vars

\* a sequence of resolutions, each of a configuration one field away from
\* the one before
NextCalls ==
    \/ CallGetArchitectureInfo
    \/ NewCall

SpecCalls == Init /\ [][NextCalls]_vars

\* ---- vocabulary of the properties ----
Resolved == outcome # NoOutcome
SingleName == Len(config.architectures) = 1
DeclaredName == config.architectures[1]

\* the name a descriptor answers to
DescriptorName(d) ==
    CASE d.kind = "StaticTensorNames" -> d.name
      [] d.kind = "MixtralTensorNames" -> MixtralTensorNames_ARCHITECTURE_NAME
      [] d.kind = "PhiTensorNames" -> PhiTensorNames_ARCHITECTURE_NAME

InSupportedSet ==
    /\ SingleName
    /\ \/ DeclaredName \in StaticNames
       \/ DeclaredName = MixtralTensorNames_ARCHITECTURE_NAME
       \/ DeclaredName = PhiTensorNames_ARCHITECTURE_NAME
       \/ /\ DeclaredName = "PhiForCausalLM"
          /\ config.model_type \in {"phi-msft", "phi"}

\* C1: every configuration declaring exactly one name of the supported set
\* (the static table, MixtralForCausalLM, MixFormerSequentialForCausalLM,
\* PhiForCausalLM with model_type phi-msft or phi) resolves to a descriptor,
\* without raising, whose name is the declared name.
C1_TotalOverSupported ==
    (Resolved /\ InSupportedSet) =>
        /\ outcome.tag = "return"
        /\ DescriptorName(outcome.value) = DeclaredName

\* the layer count all_weights reads for the descriptor in hand
LayerCount == config[num_layers_config_key(info)]

\* C2: all_weights is pre_weights(), then layer_weights(0), ...,
\* layer_weights(N-1) in ascending order, then post_weights(), N being the
\* value of the layer-count field; nothing added, dropped or reordered.
C2_AllWeightsOrder ==
    pc = "done" =>
        res = pre_weights(info)
                \o Concat([i \in 1..LayerCount |-> layer_weights(info, i - 1)])
                \o post_weights(info)

C2_Witness ==
    /\ pc = "done"
    /\ LayerCount = 2
    /\ Len(res) > Len(pre_weights(info)) + Len(post_weights(info))

\* C3: a configuration whose architectures list has zero or several
\* elements fails, having evaluated nothing but the list itself (no name, no
\* model_type, no expert or layer count), and no weight list is built.
C3_NotOneNameFails ==
    (Resolved /\ ~SingleName) =>
        /\ outcome.tag = "raise"
        /\ reads = {"architectures"}
        /\ pc = "failed"
        /\ info = NoInfo
        /\ res = << >>

C3_Witness ==
    /\ pc = "failed"
    /\ config.architectures = <<"LlamaForCausalLM", "LlamaForCausalLM">>

\* C4: a single declared name that is neither in the static table nor
\* PhiForCausalLM nor a computed-layout constant fails with the "Unsupported
\* architecture" error carrying that name; no descriptor is returned.
C4_UnknownNameFails ==
    (/\ Resolved
     /\ SingleName
     /\ DeclaredName \notin StaticNames
     /\ DeclaredName \notin {"PhiForCausalLM",
                             "MixFormerSequentialForCausalLM",
                             "MixtralForCausalLM"}) =>
        /\ outcome = Raise("RuntimeError", "Unsupported architecture ",
                           <<DeclaredName>>)
        /\ info = NoInfo

C4_Witness ==
    /\ pc = "failed"
    /\ config.architectures = <<"LlamaModel">>
    /\ outcome.tag = "raise"

\* the names of the weights of layer 0
Layer0Names(d) == {w.name : w \in Range(layer_weights(d, 0))}

MixerVocabulary(d) ==
    /\ d.kind = "StaticTensorNames"
    /\ \E x \in Range(d.layer_weight_suffixes) : startswith(x, "mixer.Wqkv.")
    /\ \E x \in Range(d.layer_weight_suffixes) :
            startswith(x, "mixer.out_proj.")
    /\ \A x \in Range(d.layer_weight_suffixes) : ~startswith(x, "self_attn.")
    /\ "transformer.h.0.mixer.Wqkv.weight" \in Layer0Names(d)
    /\ num_layers_config_key(d) = "n_layer"

SelfAttnVocabulary(d) ==
    /\ d.kind = "StaticTensorNames"
    /\ \E x \in Range(d.layer_weight_suffixes) :
            startswith(x, "self_attn.q_proj.")
    /\ \A x \in Range(d.layer_weight_suffixes) : ~startswith(x, "mixer.")
    /\ "model.layers.0.self_attn.q_proj.weight" \in Layer0Names(d)

IsPhi(c, model_type) ==
    /\ c.architectures = <<"PhiForCausalLM">>
    /\ c.model_type = model_type

\* C5: PhiForCausalLM with model_type phi-msft resolves to the descriptor of
\* the mixer vocabulary with layer-count key n_layer, with model_type phi to
\* the descriptor of the self_attn vocabulary; neither value gives the
\* other's descriptor, and the two descriptors differ in their pre-weights
\* and in their post-weights.
C5_PhiVariants ==
    /\ (Resolved /\ IsPhi(config, "phi-msft")) =>
            /\ outcome.tag = "return"
            /\ MixerVocabulary(outcome.value)
            /\ ~SelfAttnVocabulary(outcome.value)
    /\ (Resolved /\ IsPhi(config, "phi")) =>
            /\ outcome.tag = "return"
            /\ SelfAttnVocabulary(outcome.value)
            /\ ~MixerVocabulary(outcome.value)
    /\ (/\ Resolved
        /\ prev # NoCall
        /\ \/ IsPhi(prev.config, "phi-msft") /\ IsPhi(config, "phi")
           \/ IsPhi(prev.config, "phi") /\ IsPhi(config, "phi-msft")) =>
            /\ outcome.tag = "return" /\ prev.outcome.tag = "return"
            /\ outcome.value # prev.outcome.value
            /\ pre_weights(outcome.value) # pre_weights(prev.outcome.value)
            /\ post_weights(outcome.value) # post_weights(prev.outcome.value)

C5_Witness ==
    /\ Resolved
    /\ prev # NoCall
    /\ IsPhi(prev.config, "phi-msft")
    /\ IsPhi(config, "phi")
    /\ outcome.tag = "return"

UnexpectedPhi ==
    /\ Resolved
    /\ config.architectures = <<"PhiForCausalLM">>
    /\ config.model_type \notin {"phi-msft", "phi"}

\* C6 as stated: PhiForCausalLM with a model_type other than phi-msft and
\* phi fails, and the error carries both the declared name and the
\* unexpected model_type value.
C6_ErrorCarriesNameAndModelType ==
    UnexpectedPhi =>
        /\ outcome.tag = "raise"
        /\ "PhiForCausalLM" \in Range(outcome.args)
        /\ config.model_type \in Range(outcome.args)

\* C6 amended: PhiForCausalLM with a model_type other than phi-msft and phi
\* fails (no descriptor is returned) with the "Unsupported architecture"
\* error, which carries the declared name and not the model_type value.
C6_ErrorCarriesNameOnly ==
    UnexpectedPhi =>
        /\ outcome = Raise("RuntimeError", "Unsupported architecture ",
                           <<"PhiForCausalLM">>)
        /\ info = NoInfo
        /\ pc = "failed"

C6_Witness ==
    /\ UnexpectedPhi
    /\ config.model_type = "phi3"
    /\ outcome.tag = "raise"

MixtralExpertName(i, e, param) ==
    "model.layers." \o ToString(i) \o ".block_sparse_moe.experts."
        \o ToString(e) \o "." \o param \o ".weight"

\* C7: for MixtralTensorNames with expert count E, layer_weights(i) is
\* 3*E + 1 descriptors: w1, w2, w3 of expert 0, then of expert 1, ..., then
\* of expert E-1, then the gate, last; every name carries the index i and
\* every is_embed is false (25 descriptors for E = 8, 1 for E = 0).
C7_MixtralLayer ==
    (info.kind = "MixtralTensorNames" /\ pc \in {"loop", "done"}
        /\ layer_idx > 0) =>
        LET E == info.num_local_experts
            i == layer_idx - 1
        IN  /\ Len(layer) = 3 * E + 1
            /\ \A e \in 0..(E - 1) :
                /\ layer[3 * e + 1].name = MixtralExpertName(i, e, "w1")
                /\ layer[3 * e + 2].name = MixtralExpertName(i, e, "w2")
                /\ layer[3 * e + 3].name = MixtralExpertName(i, e, "w3")
            /\ layer[3 * E + 1].name =
                 "model.layers." \o ToString(i) \o ".block_sparse_moe.gate.weight"
            /\ \A k \in DOMAIN layer : layer[k].is_embed = FALSE
            /\ (E = 8 => Len(layer) = 25)
            /\ (E = 0 => Len(layer) = 1)

C7_Witness ==
    /\ info.kind = "MixtralTensorNames"
    /\ info.num_local_experts = 8
    /\ pc = "loop"
    /\ layer_idx = 2
    /\ Len(layer) = 25

\* C8: for a static descriptor with P pre-weight names, Q post-weight names
\* and S per-layer suffixes and layer count N, all_weights has P + N*S + Q
\* descriptors; LlamaForCausalLM with N = 2 gives 21, the first and the last
\* with is_embed true and every per-layer descriptor with is_embed false.
C8_StaticCount ==
    (pc = "done" /\ info.kind = "StaticTensorNames") =>
        /\ Len(res) = Len(info.pre_weight_names)
                        + LayerCount * Len(info.layer_weight_suffixes)
                        + Len(info.post_weight_names)
        /\ (info.name = "LlamaForCausalLM" /\ config.num_hidden_layers = 2) =>
                /\ Len(res) = 21
                /\ res[1].is_embed = TRUE
                /\ res[21].is_embed = TRUE
                /\ \A k \in 2..19 : res[k].is_embed = FALSE

C8_Witness ==
    /\ pc = "done"
    /\ info = LLAMA_INFO
    /\ config.num_hidden_layers = 2
    /\ Len(res) = 21

SameNameAndModelType ==
    /\ Resolved
    /\ prev # NoCall
    /\ SingleName
    /\ Len(prev.config.architectures) = 1
    /\ prev.config.architectures[1] = DeclaredName
    /\ prev.config.model_type = config.model_type

\* C9 as stated: two configurations declaring the same single name and the
\* same model_type get the same outcome, whatever their other fields and
\* whatever was called before.
C9_OutcomeFromNameAndModelType ==
    SameNameAndModelType => outcome = prev.outcome

\* C9 amended: two configurations declaring the same single name and the
\* same model_type and, when the name is MixtralForCausalLM, the same
\* num_local_experts, get the same outcome, whatever n_layer and
\* num_hidden_layers are and whatever was called before.
C9_OutcomeFromNameModelTypeExperts ==
    (/\ SameNameAndModelType
     /\ (DeclaredName = "MixtralForCausalLM" =>
            prev.config.num_local_experts = config.num_local_experts)) =>
        outcome = prev.outcome

C9_Witness ==
    /\ SameNameAndModelType
    /\ DeclaredName = "MixtralForCausalLM"
    /\ prev.config.num_local_experts = config.num_local_experts
    /\ prev.config.num_hidden_layers # config.num_hidden_layers
    /\ outcome.tag = "return"
    /\ outcome.value.num_local_experts = 8

\* C10: the names of the descriptors all_weights returns are pairwise
\* distinct, for every catalogued descriptor and every layer count.
C10_NamesUnique ==
    pc = "done" =>
        \A i, j \in DOMAIN res : i # j => res[i].name # res[j].name

====
